---- MODULE Spec2Model ----
(***************************************************************************)
(* A model of Presupuesto Maestro (src/PresupuestoMaestro.py): the decimal *)
(* validation layer (to_decimal, Product.from_dict), the budget engine     *)
(* (calculate_all) and the JSON record store (save_product,                *)
(* load_all_products) driven by the product form.                          *)
(*                                                                         *)
(* Python values are records tagged by "kind":                             *)
(*   None, a str (a sequence of one-character strings), a Decimal          *)
(*   ("finite" with sign, coefficient digits and exponent, exactly the     *)
(*   triple Decimal.as_tuple() shows, or "nan"/"snan"/"inf"), and a raised *)
(*   exception ("raise").                                                  *)
(***************************************************************************)
EXTENDS Integers, Sequences, FiniteSets, TLC

VARIABLES
    raw,            \* to_decimal: the raw scalar handed to it
    parsed,         \* to_decimal: what the call produced ("pending" before it)
    pc,             \* where the program stands
    clock,          \* what datetime.utcnow() reads at the next Product built
    form,           \* ProductForm: the text of each entry
    seed,           \* ProductForm: the dict the form was opened on ({} to add)
    product,        \* on_save: the Product built from the entries, or the exception
    out,            \* on_save: what calculate_all(p) produced
    files,          \* the filesystem: each path's file, or Absent
    sameFs,         \* the temporary directory and data/ lie on one filesystem
    readable,       \* the process may read DATA_FILE
    caller,         \* who called save_product / load_all_products
    path,           \* save_product / load_all_products: the path argument
    selected,       \* edit_selected: the id of the selected row
    product_dict,   \* save_product: its argument
    content,        \* save_product: the document as read
    prods,          \* save_product: the collection after replace-or-append
    ret,            \* ProductList: what load_all_products returned to it
    logged,         \* load_all_products: the last call logged an error
    committed,      \* history: the collection of the last complete write of DATA_FILE
    firstCreated,   \* history: id -> created_at the first time the id was written
    fresh           \* history: the dict of a save_product just completed

parseVars == <<raw, parsed>>
formVars == <<form, seed, product, out>>
envVars == <<files, sameFs, readable>>
frameVars == <<caller, path, selected, product_dict, content, prods>>
resVars == <<ret, logged>>
histVars == <<committed, firstCreated, fresh>>
vars == <<parseVars, pc, clock, formVars, envVars, frameVars, resVars, histVars>>

----------------------------------------------------------------------------
(* Python values *)

None == [kind |-> "None"]
Str(s) == [kind |-> "str", s |-> s]
Raise(exc) == [kind |-> "raise", exc |-> exc]
ValueError(field_name) == [kind |-> "raise", exc |-> "ValueError", field |-> field_name]
Pending == [kind |-> "pending"]
Finite(sign, int, exp) == [kind |-> "finite", sign |-> sign, int |-> int, exp |-> exp]
Special(kind, sign) == [kind |-> kind, sign |-> sign]

IsExc(x) == x.kind = "raise"
IsFinite(x) == x.kind = "finite"
IsDecimal(x) == x.kind \in {"finite", "nan", "snan", "inf"}

----------------------------------------------------------------------------
(* Evaluation order: Let1..Let3 evaluate an expression once and hand its
   value on, as a Python statement does that assigns a local name. *)

Let1(e, F(_)) == CHOOSE r \in {F(x) : x \in {e}} : TRUE
Let2(e1, e2, F(_, _)) == CHOOSE r \in {F(x, y) : x \in {e1}, y \in {e2}} : TRUE
Let3(e1, e2, e3, F(_, _, _)) ==
    CHOOSE r \in {F(x, y, z) : x \in {e1}, y \in {e2}, z \in {e3}} : TRUE

MinInt(x, y) == IF x < y THEN x ELSE y
MaxInt(x, y) == IF x > y THEN x ELSE y

----------------------------------------------------------------------------
(* Coefficients: naturals as digit sequences, most significant digit first,
   as Decimal keeps them (Decimal._int); <<0>> is zero. *)

Front(s) == SubSeq(s, 1, Len(s) - 1)
Last(s) == s[Len(s)]
Drop(s, n) == SubSeq(s, n + 1, Len(s))
Take(s, n) == SubSeq(s, 1, n)
Zeros(n) == [i \in 1..n |-> 0] \o <<>>
IsZeroN(a) == \A i \in 1..Len(a) : a[i] = 0

\* a without its leading zeros
StripV(a) ==
    IF IsZeroN(a) THEN <<0>>
    ELSE Drop(a, (CHOOSE i \in 1..Len(a) : a[i] # 0 /\ \A j \in 1..(i - 1) : a[j] = 0) - 1)
Strip(a) == Let1(a, LAMBDA x : StripV(x))

\* -1, 0, 1 as a < b, a = b, a > b (a, b without leading zeros)
CmpNV(a, b) ==
    IF Len(a) # Len(b) THEN (IF Len(a) < Len(b) THEN -1 ELSE 1)
    ELSE IF a = b THEN 0
    ELSE LET i == CHOOSE k \in 1..Len(a) :
                      a[k] # b[k] /\ \A j \in 1..(k - 1) : a[j] = b[j]
         IN IF a[i] < b[i] THEN -1 ELSE 1
CmpN(a, b) == Let2(a, b, LAMBDA x, y : CmpNV(x, y))

\* x + y digit by digit for x, y of one length with a leading zero: position i
\* receives a carry when a less significant position generates one and every
\* position between passes it on
CarryInto(x, y, i) ==
    \E j \in (i + 1)..Len(x) :
        x[j] + y[j] >= 10 /\ \A k \in (i + 1)..(j - 1) : x[k] + y[k] = 9
AddPadded(x, y) ==
    [i \in 1..Len(x) |-> (x[i] + y[i] + (IF CarryInto(x, y, i) THEN 1 ELSE 0)) % 10] \o <<>>
AddNV(a, b) ==
    LET n == MaxInt(Len(a), Len(b)) + 1
    IN Strip(Let2(Zeros(n - Len(a)) \o a, Zeros(n - Len(b)) \o b,
                 LAMBDA x, y : AddPadded(x, y)))
AddN(a, b) == Let2(a, b, LAMBDA x, y : AddNV(x, y))

\* x - y for x >= y of one length: position i lends when a less significant
\* position falls short and every position between is level
BorrowFrom(x, y, i) ==
    \E j \in (i + 1)..Len(x) :
        x[j] < y[j] /\ \A k \in (i + 1)..(j - 1) : x[k] = y[k]
SubPadded(x, y) ==
    [i \in 1..Len(x) |->
        (x[i] - y[i] - (IF BorrowFrom(x, y, i) THEN 1 ELSE 0) + 10) % 10] \o <<>>
SubNV(a, b) ==
    Strip(Let2(a, Zeros(Len(a) - Len(b)) \o b, LAMBDA x, y : SubPadded(x, y)))
SubN(a, b) == Let2(a, b, LAMBDA x, y : SubNV(x, y))

\* a times one digit d: the units of each digit's product plus, one place up,
\* their tens
MulDV(a, d) ==
    AddN([i \in 1..Len(a) |-> (a[i] * d) % 10] \o <<>>,
         [i \in 1..Len(a) |-> (a[i] * d) \div 10] \o <<0>>)
MulD(a, d) == Let2(a, d, LAMBDA x, y : MulDV(x, y))

\* a times the digits lo..hi of b
RECURSIVE MulRange(_, _, _, _)
MulRange(a, b, lo, hi) ==
    IF lo = hi THEN MulD(a, b[lo])
    ELSE LET mid == (lo + hi) \div 2
         IN AddN(MulRange(a, b, lo, mid) \o Zeros(hi - mid), MulRange(a, b, mid + 1, hi))
MulN(a, b) == Let2(a, b, LAMBDA x, y : MulRange(x, y, 1, Len(y)))

\* divmod(a, b) for b > 0 by long division: after i digits of a, the quotient
\* digits so far and the remainder
QuotDigit(r, b) ==
    CHOOSE k \in 0..9 :
        /\ CmpN(MulD(b, k), r) <= 0
        /\ k < 9 => CmpN(MulD(b, k + 1), r) > 0
DivStep(prev, digit, b) ==
    Let1(Strip(prev.r \o <<digit>>), LAMBDA cur :
    Let1(QuotDigit(cur, b), LAMBDA k :
        [q |-> Append(prev.q, k), r |-> SubN(cur, MulD(b, k))]))
\* the digits lo..hi of a brought down one by one after prev
RECURSIVE DivRange(_, _, _, _, _)
DivRange(prev, a, b, lo, hi) ==
    IF lo = hi THEN DivStep(prev, a[lo], b)
    ELSE Let1(DivRange(prev, a, b, lo, (lo + hi) \div 2), LAMBDA half :
            DivRange(half, a, b, (lo + hi) \div 2 + 1, hi))
DivModNV(a, b) ==
    Let1(DivRange([q |-> <<>>, r |-> <<0>>], a, b, 1, Len(a)), LAMBDA qr :
        [q |-> Strip(qr.q), r |-> qr.r])
DivModN(a, b) == Let2(a, b, LAMBDA x, y : DivModNV(x, y))

RECURSIVE NatOfDigitsTo(_, _)
NatOfDigitsTo(a, i) == IF i = 0 THEN 0 ELSE 10 * NatOfDigitsTo(a, i - 1) + a[i]
NatOfDigits(a) == Let1(a, LAMBDA x : NatOfDigitsTo(x, Len(x)))

----------------------------------------------------------------------------
(* The decimal context and Decimal's operations, as the code uses them *)

prec == 28
TWOPLACES == Finite(0, <<1>>, -2)
ROUND_HALF_UP == "ROUND_HALF_UP"
ROUND_HALF_EVEN == "ROUND_HALF_EVEN"
\* getcontext().rounding is left at the library default
ContextRounding == ROUND_HALF_EVEN

\* Whether dropping the digits `rest` after the kept digits rounds away from zero
RoundsUp(kept, rest, rounding) ==
    IF rounding = ROUND_HALF_EVEN /\ rest[1] = 5 /\ IsZeroN(Tail(rest))
    THEN Last(kept) % 2 = 1
    ELSE rest[1] >= 5

\* Decimal._rescale: the same value at exponent exp, rounded if digits are dropped
RescaleV(d, exp, rounding) ==
    IF IsZeroN(d.int) THEN Finite(d.sign, <<0>>, exp)
    ELSE IF d.exp >= exp THEN Finite(d.sign, d.int \o Zeros(d.exp - exp), exp)
    ELSE LET n == Len(d.int) + d.exp - exp
             src == IF n < 0 THEN <<1>> ELSE d.int
             digits == IF n < 0 THEN 0 ELSE n
             kept == IF digits = 0 THEN <<0>> ELSE Take(src, digits)
         IN Finite(d.sign,
                   IF RoundsUp(kept, Drop(src, digits), rounding)
                   THEN AddN(kept, <<1>>) ELSE kept,
                   exp)
Rescale(d, exp, rounding) == Let1(d, LAMBDA x : RescaleV(x, exp, rounding))

\* Decimal.quantize(q, rounding): InvalidOperation when the result would need
\* more than prec digits, or the operand is infinite or a signalling NaN
quantizeV(d, q, rounding) ==
    IF IsExc(d) THEN d
    ELSE IF d.kind = "nan" THEN d
    ELSE IF d.kind \in {"snan", "inf"} THEN Raise("InvalidOperation")
    ELSE IF IsZeroN(d.int) THEN Finite(d.sign, <<0>>, q.exp)
    ELSE IF (d.exp + Len(d.int) - 1) - q.exp + 1 > prec THEN Raise("InvalidOperation")
    ELSE Let1(RescaleV(d, q.exp, rounding), LAMBDA ans :
            IF Len(ans.int) > prec THEN Raise("InvalidOperation") ELSE ans)
quantize(d, q, rounding) == Let1(d, LAMBDA x : quantizeV(x, q, rounding))

\* Decimal._fix: round a result to the context precision
FixV(d) ==
    IF Len(d.int) <= prec THEN d
    ELSE Let1(RescaleV(d, d.exp + Len(d.int) - prec, ContextRounding), LAMBDA r :
            IF Len(r.int) > prec THEN Finite(r.sign, Front(r.int), r.exp + 1) ELSE r)
Fix(d) == Let1(d, LAMBDA x : FixV(x))

Negate(d) == [d EXCEPT !.sign = 1 - d.sign]
Xor(s, t) == IF s = t THEN 0 ELSE 1

\* Decimal.__mul__: exact product, then rounded to the context precision
MulFinite(a, b) ==
    IF IsZeroN(a.int) \/ IsZeroN(b.int)
    THEN Finite(Xor(a.sign, b.sign), <<0>>, a.exp + b.exp)
    ELSE Fix(Finite(Xor(a.sign, b.sign), MulN(a.int, b.int), a.exp + b.exp))

\* Decimal.__add__: operands aligned to the smaller exponent, exact sum, then
\* rounded to the context precision; a zero result of opposite signs is +0
AddAligned(a, b, x, y, e) ==
    IF a.sign = b.sign THEN Fix(Finite(a.sign, AddN(x, y), e))
    ELSE IF CmpN(x, y) = 0 THEN Finite(0, <<0>>, e)
    ELSE IF CmpN(x, y) > 0 THEN Fix(Finite(a.sign, SubN(x, y), e))
    ELSE Fix(Finite(b.sign, SubN(y, x), e))
AddFinite(a, b) ==
    LET e == MinInt(a.exp, b.exp)
    IN IF IsZeroN(a.int) /\ IsZeroN(b.int)
       THEN Finite(MinInt(a.sign, b.sign), <<0>>, e)
       ELSE IF IsZeroN(a.int)
       THEN Fix(Rescale(b, MaxInt(e, b.exp - prec - 1), ContextRounding))
       ELSE IF IsZeroN(b.int)
       THEN Fix(Rescale(a, MaxInt(e, a.exp - prec - 1), ContextRounding))
       ELSE Let2(a.int \o Zeros(a.exp - e), b.int \o Zeros(b.exp - e),
                 LAMBDA x, y : AddAligned(a, b, x, y, e))
SubFinite(a, b) == AddFinite(a, Negate(b))

\* An exact quotient drops trailing zeros while its exponent is below the ideal one
TrailingZeros(a) ==
    CHOOSE k \in 0..(Len(a) - 1) :
        /\ \A i \in (Len(a) - k + 1)..Len(a) : a[i] = 0
        /\ a[Len(a) - k] # 0 \/ k = Len(a) - 1
TowardsIdeal(d, ideal) ==
    LET k == MinInt(TrailingZeros(d.int), MaxInt(ideal - d.exp, 0))
    IN Finite(d.sign, Take(d.int, Len(d.int) - k), d.exp + k)

\* Decimal.__truediv__ (Decimal._divide): prec + 1 or prec + 2 quotient digits with
\* a sticky last digit, then rounded to the context precision; x / 0 raises
\* DivisionByZero (a ZeroDivisionError), 0 / 0 DivisionUndefined (an InvalidOperation)
DivResult(a, b, shift, qr) ==
    IF IsZeroN(qr.r)
    THEN Fix(Let1(Finite(Xor(a.sign, b.sign), qr.q, a.exp - b.exp - shift),
                  LAMBDA res : TowardsIdeal(res, a.exp - b.exp)))
    ELSE Fix(Finite(Xor(a.sign, b.sign),
                    IF Last(qr.q) % 5 = 0 THEN AddN(qr.q, <<1>>) ELSE qr.q,
                    a.exp - b.exp - shift))
DivFinite(a, b) ==
    IF IsZeroN(b.int)
    THEN (IF IsZeroN(a.int) THEN Raise("InvalidOperation") ELSE Raise("ZeroDivisionError"))
    ELSE IF IsZeroN(a.int) THEN Finite(Xor(a.sign, b.sign), <<0>>, a.exp - b.exp)
    ELSE LET shift == Len(b.int) - Len(a.int) + prec + 1
         IN Let1(IF shift >= 0
                 THEN DivModN(a.int \o Zeros(shift), b.int)
                 ELSE DivModN(a.int, b.int \o Zeros(-shift)),
                 LAMBDA qr : DivResult(a, b, shift, qr))

\* The binary operators on any operand: an exception already raised while
\* evaluating an operand propagates, a NaN operand gives NaN (a signalling
\* NaN raises); infinities never reach arithmetic, quantize refuses them.
Propagates(a, b) == ~IsFinite(a) \/ ~IsFinite(b)
Propagated(a, b) ==
    IF IsExc(a) THEN a
    ELSE IF IsExc(b) THEN b
    ELSE IF a.kind = "snan" \/ b.kind = "snan" THEN Raise("InvalidOperation")
    ELSE IF a.kind = "nan" THEN a
    ELSE b
Mul(a, b) ==
    Let2(a, b, LAMBDA x, y : IF Propagates(x, y) THEN Propagated(x, y) ELSE MulFinite(x, y))
Add(a, b) ==
    Let2(a, b, LAMBDA x, y : IF Propagates(x, y) THEN Propagated(x, y) ELSE AddFinite(x, y))
Sub(a, b) ==
    Let2(a, b, LAMBDA x, y : IF Propagates(x, y) THEN Propagated(x, y) ELSE SubFinite(x, y))
Div(a, b) ==
    Let2(a, b, LAMBDA x, y : IF Propagates(x, y) THEN Propagated(x, y) ELSE DivFinite(x, y))

\* d > 0 for a finite d; the ordering comparison of a NaN signals InvalidOperation
CmpRaises(d) == d.kind \in {"nan", "snan"}
IsPositive(d) == d.kind = "finite" /\ d.sign = 0 /\ ~IsZeroN(d.int)

\* Two Decimals compare equal when they denote the same number (-0.00 = 0.00)
NumEqV(a, b) ==
    /\ IsFinite(a)
    /\ IsFinite(b)
    /\ LET e == MinInt(a.exp, b.exp)
       IN Let2(Strip(a.int \o Zeros(a.exp - e)), Strip(b.int \o Zeros(b.exp - e)),
               LAMBDA x, y : x = y /\ (IsZeroN(x) \/ a.sign = b.sign))
NumEq(a, b) == Let2(a, b, LAMBDA x, y : NumEqV(x, y))

----------------------------------------------------------------------------
(* Text: a str is a sequence of one-character strings *)

DigitChars == <<"0", "1", "2", "3", "4", "5", "6", "7", "8", "9">>
DigitSet == {DigitChars[i] : i \in 1..10}
DigitChar(d) == DigitChars[d + 1]
DigitVal(c) == (CHOOSE i \in 1..10 : DigitChars[i] = c) - 1
Chars(a) == [i \in 1..Len(a) |-> DigitChar(a[i])] \o <<>>
Digits(s) == [i \in 1..Len(s) |-> DigitVal(s[i])] \o <<>>
Lower(c) == CASE c = "N" -> "n" [] c = "I" -> "i" [] c = "E" -> "e" [] c = "S" -> "s"
              [] OTHER -> c
LowerStr(s) == [i \in 1..Len(s) |-> Lower(s[i])] \o <<>>

\* str.strip(): the text between its first and its last non-blank character
stripV(s) ==
    IF \A i \in 1..Len(s) : s[i] = " " THEN <<>>
    ELSE SubSeq(s, CHOOSE i \in 1..Len(s) : s[i] # " " /\ \A j \in 1..(i - 1) : s[j] = " ",
                   CHOOSE i \in 1..Len(s) : s[i] # " " /\ \A j \in (i + 1)..Len(s) : s[j] = " ")
strip(s) == Let1(s, LAMBDA x : stripV(x))
\* str.replace("_", "")
DropUnderscores(s) == SelectSeq(s, LAMBDA c : c # "_")

\* The length of the longest prefix of s made of digits
DigitPrefixLen(s) ==
    CHOOSE n \in 0..Len(s) :
        /\ \A i \in 1..n : s[i] \in DigitSet
        /\ n < Len(s) => s[n + 1] \notin DigitSet
AllDigits(s) == \A i \in 1..Len(s) : s[i] \in DigitSet

\* Decimal(str): the constructor's grammar
\*   [sign] (digits [. digits] | . digits) [E [sign] digits] | [sign] Inf[inity]
\*   | [sign] [s]NaN[digits]
\* on the text stripped of surrounding blanks and of underscores, ignoring case;
\* anything else signals ConversionSyntax, an InvalidOperation. (A NaN's
\* diagnostic digits are accepted and not kept: nothing in the program reads them.)
ParseExponent(sign, coefficient, nf, r2) ==
    LET esigned == Len(r2) >= 2 /\ r2[2] \in {"-", "+"}
        edigits == IF r2 = <<>> THEN <<>> ELSE Drop(r2, IF esigned THEN 2 ELSE 1)
    IN IF r2 = <<>> THEN Finite(sign, Strip(Digits(coefficient)), -nf)
       ELSE IF r2[1] = "e" /\ edigits # <<>> /\ AllDigits(edigits)
       THEN Finite(sign, Strip(Digits(coefficient)),
                   (IF esigned /\ r2[2] = "-" THEN -1 ELSE 1) * NatOfDigits(Digits(edigits)) - nf)
       ELSE Raise("InvalidOperation")
ParseNumber(sign, body) ==
    LET ni == DigitPrefixLen(body)
        dot == ni < Len(body) /\ body[ni + 1] = "."
        nf == IF dot THEN DigitPrefixLen(Drop(body, ni + 1)) ELSE 0
    IN IF ni = 0 /\ nf = 0 THEN Raise("InvalidOperation")
       ELSE IF dot
       THEN ParseExponent(sign, Take(body, ni) \o SubSeq(body, ni + 2, ni + 1 + nf), nf,
                          Drop(body, ni + 1 + nf))
       ELSE ParseExponent(sign, Take(body, ni), 0, Drop(body, ni))
ParseBody(sign, body) ==
    IF body \in {<<"i", "n", "f">>, <<"i", "n", "f", "i", "n", "i", "t", "y">>}
    THEN Special("inf", sign)
    ELSE IF Len(body) >= 3 /\ Take(body, 3) = <<"n", "a", "n">> /\ AllDigits(Drop(body, 3))
    THEN Special("nan", sign)
    ELSE IF Len(body) >= 4 /\ Take(body, 4) = <<"s", "n", "a", "n">> /\ AllDigits(Drop(body, 4))
    THEN Special("snan", sign)
    ELSE ParseNumber(sign, body)
ParseSigned(s) ==
    IF s # <<>> /\ s[1] \in {"-", "+"}
    THEN Let1(Tail(s), LAMBDA body : ParseBody(IF s[1] = "-" THEN 1 ELSE 0, body))
    ELSE ParseBody(0, s)
Decimal(text) ==
    Let1(LowerStr(DropUnderscores(strip(text))), LAMBDA s : ParseSigned(s))

\* format(v, 'f'): sign, integer digits, and after a point the fraction digits
FormatFinite(minus, r) ==
    LET dotplace == r.exp + Len(r.int)
        intpart == IF dotplace <= 0 THEN <<"0">> ELSE Chars(Take(r.int, dotplace))
        fracpart == IF dotplace < 0 THEN Chars(Zeros(-dotplace) \o r.int)
                    ELSE Chars(Drop(r.int, dotplace))
    IN minus \o intpart \o (IF r.exp = 0 THEN <<>> ELSE <<".">> \o fracpart)
format_fV(d) ==
    LET minus == IF d.sign = 1 THEN <<"-">> ELSE <<>>
    IN CASE d.kind = "nan" -> minus \o <<"N", "a", "N">>
         [] d.kind = "snan" -> minus \o <<"s", "N", "a", "N">>
         [] d.kind = "inf" -> minus \o <<"I", "n", "f", "i", "n", "i", "t", "y">>
         [] OTHER -> Let1(IF d.exp > 0 THEN RescaleV(d, 0, ContextRounding) ELSE d,
                          LAMBDA r : FormatFinite(minus, r))
format_f(d) == Let1(d, LAMBDA x : format_fV(x))

----------------------------------------------------------------------------
(* Validators *)

IsBlank(value) == value.kind = "str" /\ strip(value.s) = <<>>

\* to_decimal(value, field_name): ValueError for None, a blank str or a text
\* Decimal() rejects; otherwise the value quantized to TWOPLACES, half up.
\* The quantize stands outside the try: what it raises is not converted.
to_decimalV(value, field_name) ==
    IF value = None \/ IsBlank(value) THEN ValueError(field_name)
    ELSE Let1(Decimal(value.s), LAMBDA d :
            IF IsExc(d) THEN ValueError(field_name)
            ELSE quantizeV(d, TWOPLACES, ROUND_HALF_UP))
to_decimal(value, field_name) == Let1(value, LAMBDA v : to_decimalV(v, field_name))

\* validate_required(value, field_name): ValueError for None or a blank str
validate_required(value, field_name) ==
    Let1(value, LAMBDA v : IF v = None \/ IsBlank(v) THEN ValueError(field_name) ELSE None)

----------------------------------------------------------------------------
(* Models & calculations *)

\* A dict is a function from its keys; dict.get(key, default)
get(data, key, default) == IF key \in DOMAIN data THEN data[key] ELSE default
\* `x or y` on a str or None
Truthy(v) == v.kind = "str" /\ v.s # <<>>

\* The Decimal fields of Product that from_dict reads with gd(), in the order
\* the constructor call evaluates them (costo_venta, optional, stands apart)
RequiredKeys == <<"producto", "unidades_vender", "costo_unitario", "precio_unitario">>
DecimalKeys ==
    <<"unidades_vender", "costo_unitario", "precio_unitario", "inventario_inicial",
      "inventario_final", "costo_venta", "material_por_unidad", "inv_mat_inicial",
      "inv_mat_final", "precio_compra_material", "horas_por_unidad", "costo_por_hora",
      "costos_fijos", "costos_variables", "gastos_fijos", "gastos_variables_venta",
      "costos_administracion", "precio_venta">>

\* One constructor argument of from_dict: gd(key), or the optional costo_venta
FieldValue(data, key) ==
    IF key = "costo_venta"
    THEN (IF get(data, key, None) \notin {None, Str(<<>>)}
          THEN to_decimal(data[key], key) ELSE None)
    ELSE to_decimal(get(data, key, Str(<<"0">>)), key)

\* The first exception among a sequence of evaluated statements, or None
FirstExcV(results) ==
    IF \E i \in 1..Len(results) : IsExc(results[i])
    THEN results[CHOOSE i \in 1..Len(results) :
                    IsExc(results[i]) /\ \A j \in 1..(i - 1) : ~IsExc(results[j])]
    ELSE None
FirstExc(results) == Let1(results, LAMBDA x : FirstExcV(x))

\* Product.from_dict(data); uuid and now are what uuid.uuid4() and
\* datetime.utcnow().isoformat() return during the call. created_at is not
\* read from data: the dataclass default factory stamps every new Product.
RequiredChecks(data) ==
    [i \in 1..Len(RequiredKeys) |->
        validate_required(get(data, RequiredKeys[i], None), RequiredKeys[i])] \o <<>>
FieldValues(data) ==
    [i \in 1..Len(DecimalKeys) |-> FieldValue(data, DecimalKeys[i])] \o <<>>
Arg(v, key) == v[CHOOSE i \in 1..Len(DecimalKeys) : DecimalKeys[i] = key]
NewProduct(data, uuid, now, v) ==
    [kind |-> "Product",
     id |-> IF Truthy(get(data, "id", None)) THEN data["id"] ELSE uuid,
     producto |-> data["producto"],
     unidades_vender |-> Arg(v, "unidades_vender"),
     costo_unitario |-> Arg(v, "costo_unitario"),
     precio_unitario |-> Arg(v, "precio_unitario"),
     inventario_inicial |-> Arg(v, "inventario_inicial"),
     inventario_final |-> Arg(v, "inventario_final"),
     costo_venta |-> Arg(v, "costo_venta"),
     material_por_unidad |-> Arg(v, "material_por_unidad"),
     inv_mat_inicial |-> Arg(v, "inv_mat_inicial"),
     inv_mat_final |-> Arg(v, "inv_mat_final"),
     precio_compra_material |-> Arg(v, "precio_compra_material"),
     horas_por_unidad |-> Arg(v, "horas_por_unidad"),
     costo_por_hora |-> Arg(v, "costo_por_hora"),
     costos_fijos |-> Arg(v, "costos_fijos"),
     costos_variables |-> Arg(v, "costos_variables"),
     gastos_fijos |-> Arg(v, "gastos_fijos"),
     gastos_variables_venta |-> Arg(v, "gastos_variables_venta"),
     costos_administracion |-> Arg(v, "costos_administracion"),
     precio_venta |-> Arg(v, "precio_venta"),
     created_at |-> now]
from_dict(data, uuid, now) ==
    Let1(RequiredChecks(data) \o FieldValues(data), LAMBDA results :
    Let1(FirstExcV(results), LAMBDA exc :
        IF exc # None THEN exc
        ELSE NewProduct(data, uuid, now, Drop(results, Len(RequiredKeys)))))

\* Product.to_json_dict: asdict, every Decimal replaced by format(v, 'f')
to_json_dict(p) ==
    [k \in DOMAIN p \ {"kind"} |-> IF IsDecimal(p[k]) THEN Str(format_f(p[k])) ELSE p[k]]

\* x.quantize(TWOPLACES) with no rounding argument: the context's rounding
Q(x) == quantize(x, TWOPLACES, ContextRounding)

\* The guard `unidades_producir > 0` of lines 165 and 180
HasProductionNonzero(unidades_producir) ==
    unidades_producir.kind = "finite" /\ ~IsZeroN(unidades_producir.int)
HasProduction(unidades_producir) == IsPositive(unidades_producir)

\* The try block of lines 182-185: InvalidOperation and ZeroDivisionError give None
punto_equilibrio(costos_fijos, precio_unitario, costo_variable_unitario) ==
    Let1(Q(Div(costos_fijos, Sub(precio_unitario, costo_variable_unitario))), LAMBDA r :
        IF IsExc(r) /\ r.exc \in {"InvalidOperation", "ZeroDivisionError"} THEN None ELSE r)

\* The keys of `out` in the order the statements insert them
OutKeys ==
    <<"total_ventas", "presupuesto_produccion", "material_a_consumir",
      "compras_de_materiales", "costo_MOD_unitario", "costo_MOD_total", "CIF_total",
      "costo_produccion_total", "costo_produccion_unitario", "gastos_totales",
      "inventario_final_valor", "estado_resultados_proyectado",
      "costo_variable_unitario", "punto_equilibrio_unidades", "utilidad_neta">>

\* The dict `out`: the sequence of its (key, value) items in insertion order
OutDictSkippingNone(f) ==
    SelectSeq([i \in 1..Len(OutKeys) |-> <<OutKeys[i], f[OutKeys[i]]>>],
              LAMBDA item : item[2] # None)
OutDict(f) == [i \in 1..Len(OutKeys) |-> <<OutKeys[i], f[OutKeys[i]]>>] \o <<>>

\* The names calculate_all binds, in statement order: its locals, and the item
\* out['presupuesto_produccion'], which has no local of its own
Locals ==
    <<"total_ventas", "unidades_producir", "presupuesto_produccion",
      "material_a_consumir", "compras_de_materiales", "costo_MOD_unitario",
      "costo_MOD_total", "CIF_total", "costo_produccion_total",
      "costo_produccion_unitario", "gastos_totales", "inventario_final_valor",
      "costo_venta_val", "estado_resultados_proyectado", "costo_variable_unitario",
      "punto_equilibrio_unidades", "utilidad_neta">>
Unbound == [kind |-> "locals"] @@ [n \in {Locals[i] : i \in 1..Len(Locals)} |-> Pending]

\* What the statement binding `name` evaluates to, given p and the names l
\* bound so far: a Decimal, None, or the exception it raises
Stmt(name, p, l) ==
    CASE name = "total_ventas" -> Q(Mul(p.unidades_vender, p.precio_unitario))
      [] name = "unidades_producir" ->
            Sub(Add(p.unidades_vender, p.inventario_final), p.inventario_inicial)
      [] name = "presupuesto_produccion" -> Q(l.unidades_producir)
      [] name = "material_a_consumir" -> Q(Mul(l.unidades_producir, p.material_por_unidad))
      [] name = "compras_de_materiales" ->
            Q(Sub(Add(l.material_a_consumir, p.inv_mat_final), p.inv_mat_inicial))
      [] name = "costo_MOD_unitario" -> Q(Mul(p.horas_por_unidad, p.costo_por_hora))
      [] name = "costo_MOD_total" -> Q(Mul(l.costo_MOD_unitario, l.unidades_producir))
      [] name = "CIF_total" -> Q(Add(p.costos_fijos, p.costos_variables))
      [] name = "costo_produccion_total" ->
            Q(Add(Add(Mul(l.material_a_consumir, p.precio_compra_material),
                      l.costo_MOD_total), l.CIF_total))
      [] name = "costo_produccion_unitario" ->
            IF CmpRaises(l.unidades_producir) THEN Raise("InvalidOperation")
            ELSE IF HasProduction(l.unidades_producir)
            THEN Q(Div(l.costo_produccion_total, l.unidades_producir))
            ELSE None
      [] name = "gastos_totales" ->
            Q(Add(Add(p.gastos_fijos, p.gastos_variables_venta), p.costos_administracion))
      [] name = "inventario_final_valor" -> Q(Mul(p.inventario_final, p.costo_unitario))
      [] name = "costo_venta_val" ->
            IF p.costo_venta # None THEN p.costo_venta ELSE l.costo_produccion_total
      [] name = "estado_resultados_proyectado" ->
            Q(Sub(Sub(l.total_ventas, l.costo_venta_val), l.gastos_totales))
      [] name = "costo_variable_unitario" ->
            IF CmpRaises(l.unidades_producir) THEN Raise("InvalidOperation")
            ELSE IF HasProduction(l.unidades_producir)
            THEN Q(Div(p.costos_variables, l.unidades_producir))
            ELSE None
      [] name = "punto_equilibrio_unidades" ->
            IF l.costo_variable_unitario = None THEN None
            ELSE punto_equilibrio(p.costos_fijos, p.precio_unitario,
                                  l.costo_variable_unitario)
      [] name = "utilidad_neta" ->
            Q(Sub(Sub(l.total_ventas, l.costo_venta_val), l.gastos_totales))

\* One statement run after the names l: the names bound, or the exception
\* that ends the run
Step(k, p, l) ==
    IF IsExc(l) THEN l
    ELSE Let1(Stmt(Locals[k], p, l), LAMBDA v :
            IF IsExc(v) THEN v ELSE [l EXCEPT ![Locals[k]] = v])
\* The statements lo..hi run in order after the names l
RECURSIVE Exec(_, _, _, _)
Exec(lo, hi, p, l) ==
    IF lo = hi THEN Step(lo, p, l)
    ELSE Let1(Exec(lo, (lo + hi) \div 2, p, l), LAMBDA half :
            Exec((lo + hi) \div 2 + 1, hi, p, half))

\* calculate_all(p): the dict `out`, or the exception that leaves the function
calculate_allV(p) ==
    Let1(Exec(1, Len(Locals), p, Unbound), LAMBDA l :
        IF IsExc(l) THEN l ELSE [kind |-> "dict", items |-> OutDict(l)])
calculate_all(p) == Let1(p, LAMBDA x : calculate_allV(x))

----------------------------------------------------------------------------
(* The product form *)

\* ProductForm.FIELDS: the entries of the form, in order, and the example each
\* entry of an empty form shows
FIELDS ==
    <<"producto", "unidades_vender", "costo_unitario", "precio_unitario",
      "inventario_inicial", "inventario_final", "costo_venta", "material_por_unidad",
      "inv_mat_inicial", "inv_mat_final", "precio_compra_material", "horas_por_unidad",
      "costo_por_hora", "costos_fijos", "costos_variables", "gastos_fijos",
      "gastos_variables_venta", "costos_administracion", "precio_venta">>
FieldSet == {FIELDS[i] : i \in 1..Len(FIELDS)}
Example(key) ==
    CASE key \in {"producto", "costo_venta"} -> <<>>
      [] key = "unidades_vender" -> <<"1", "0", "0", "0">>
      [] key \in {"inventario_inicial", "inventario_final", "inv_mat_inicial",
                  "inv_mat_final"} -> <<"0">>
      [] OTHER -> <<"0", ".", "0", "0">>

NoSeed == [x \in {} |-> None]

\* str(val) of a seed value: the text of a str, "None" for None
str(val) == IF val = None THEN <<"N", "o", "n", "e">> ELSE val.s
\* ProductForm.__init__, lines 340-341: each entry shows str(seed.get(key, example))
Prefill(s) == [k \in FieldSet |-> IF k \in DOMAIN s THEN str(s[k]) ELSE Example(k)]

\* on_save, lines 383-401: every entry stripped into data, the seed's id kept,
\* then Product.from_dict(data); a ValueError is shown and on_save returns, any
\* other exception leaves on_save
on_save_data(entries, s) ==
    LET data == [k \in FieldSet |-> Str(strip(entries[k]))]
    IN IF Truthy(get(s, "id", None)) THEN data @@ [id |-> s["id"]] ELSE data
on_save_product(entries, s, uuid, now) ==
    Let1(validate_required(Str(strip(entries["producto"])), "producto"), LAMBDA required :
        IF IsExc(required) THEN required
        ELSE from_dict(on_save_data(entries, s), uuid, now))

----------------------------------------------------------------------------
(* JSON text: a document is its sequence of tokens; the indentation that
   json.dump(indent=2) writes between them carries nothing *)

LB == [t |-> "{"]
RB == [t |-> "}"]
LBK == [t |-> "["]
RBK == [t |-> "]"]
COLON == [t |-> ":"]
COMMA == [t |-> ","]
NullTok == [t |-> "null"]
KeyTok(k) == [t |-> "key", k |-> k]
StrTok(s) == [t |-> "str", s |-> s]

\* The encoder's string escapes (ensure_ascii=False): a quote or a backslash
\* is written after a backslash
NeedsEscape(c) == c \in {"\"", "\\"}
EscapedPos(s, i) == i + Cardinality({j \in 1..i : NeedsEscape(s[j])})
EscapeV(s) ==
    [j \in 1..EscapedPos(s, Len(s)) |->
        IF \E i \in 1..Len(s) : EscapedPos(s, i) = j
        THEN s[CHOOSE i \in 1..Len(s) : EscapedPos(s, i) = j]
        ELSE "\\"] \o <<>>
Escape(s) == Let1(s, LAMBDA x : EscapeV(x))
\* The decoder's: a backslash after an even run of backslashes escapes the next character
EscapeLead(e, j) ==
    /\ e[j] = "\\"
    /\ \E k \in 0..(j - 1) :
        /\ k % 2 = 0
        /\ \A i \in (j - k)..(j - 1) : e[i] = "\\"
        /\ j - k = 1 \/ e[j - k - 1] # "\\"
UnescapeV(e) ==
    LET kept == SelectSeq([j \in 1..Len(e) |-> j], LAMBDA j : ~EscapeLead(e, j))
    IN [i \in 1..Len(kept) |-> e[kept[i]]] \o <<>>
Unescape(e) == Let1(e, LAMBDA x : UnescapeV(x))

\* A dict's value as json.dump writes it, and as json.load reads it back
EncodeValueStr(v) == StrTok(Escape(str(v)))
EncodeValue(v) == IF v = None THEN NullTok ELSE StrTok(Escape(v.s))
DecodeValue(tok) == IF tok = NullTok THEN None ELSE Str(Unescape(tok.s))

\* The fields of Product in dataclass order: the key order of asdict()
ProductFields ==
    <<"id", "producto", "unidades_vender", "costo_unitario", "precio_unitario",
      "inventario_inicial", "inventario_final", "costo_venta", "material_por_unidad",
      "inv_mat_inicial", "inv_mat_final", "precio_compra_material", "horas_por_unidad",
      "costo_por_hora", "costos_fijos", "costos_variables", "gastos_fijos",
      "gastos_variables_venta", "costos_administracion", "precio_venta", "created_at">>

\* The dict {"products": list}
Document(list) == [kind |-> "dict", products |-> list]

\* json.dumps of one record dict, and of {"products": prods}
DumpRecordV(d) ==
    LET keys == SelectSeq(ProductFields, LAMBDA k : k \in DOMAIN d)
        n == Len(keys)
    IN IF n = 0 THEN <<LB, RB>>
       ELSE <<LB>> \o [i \in 1..(4 * n) |->
                CASE i % 4 = 1 -> KeyTok(keys[(i + 3) \div 4])
                  [] i % 4 = 2 -> COLON
                  [] i % 4 = 3 -> EncodeValue(d[keys[(i + 3) \div 4]])
                  [] OTHER -> IF i = 4 * n THEN RB ELSE COMMA]
DumpRecord(d) == Let1(d, LAMBDA x : DumpRecordV(x))
RECURSIVE DumpList(_, _)
DumpList(list, n) ==
    IF n = 0 THEN <<>>
    ELSE IF n = 1 THEN DumpRecord(list[1])
    ELSE DumpList(list, n - 1) \o <<COMMA>> \o DumpRecord(list[n])
dumps(obj) ==
    Let1(obj, LAMBDA c :
        <<LB, KeyTok("products"), COLON, LBK>>
        \o DumpList(c.products, Len(c.products)) \o <<RBK, RB>>)
EmptyDocument == dumps(Document(<<>>))

\* json.load on the documents this program writes and on their truncations:
\* {"products": [ flat objects ]}, or JSONDecodeError
IndicesOf(text, tok) == SelectSeq([i \in 1..Len(text) |-> i], LAMBDA i : text[i] = tok)
MembersOk(text, open, close) ==
    \/ close = open + 1
    \/ /\ (close - open) % 4 = 0
       /\ \A i \in (open + 1)..close :
            CASE (i - open) % 4 = 1 -> text[i].t = "key"
              [] (i - open) % 4 = 2 -> text[i] = COLON
              [] (i - open) % 4 = 3 -> text[i].t \in {"str", "null"}
              [] OTHER -> text[i] = (IF i = close THEN RB ELSE COMMA)
ObjectsOk(text, opens, closes) ==
    /\ Len(opens) = Len(closes)
    /\ Len(opens) = 0 => Len(text) = 6
    /\ Len(opens) > 0 => opens[1] = 5 /\ closes[Len(closes)] = Len(text) - 2
    /\ \A k \in 1..Len(opens) :
        /\ opens[k] < closes[k]
        /\ k < Len(opens) => text[closes[k] + 1] = COMMA /\ opens[k + 1] = closes[k] + 2
        /\ MembersOk(text, opens[k], closes[k])
\* The dict of one object: of a repeated key the last member stays
LoadRecord(text, open, close) ==
    LET n == (close - open) \div 4
        key(m) == text[open + 4 * m - 3].k
        last(k) == CHOOSE m \in 1..n : key(m) = k /\ \A m2 \in (m + 1)..n : key(m2) # k
    IN [k \in {key(m) : m \in 1..n} |-> DecodeValue(text[open + 4 * last(k) - 1])]
loadsV(text) ==
    IF \/ Len(text) < 6
       \/ SubSeq(text, 1, 4) # <<LB, KeyTok("products"), COLON, LBK>>
       \/ SubSeq(text, Len(text) - 1, Len(text)) # <<RBK, RB>>
    THEN Raise("JSONDecodeError")
    ELSE Let2(IndicesOf(SubSeq(text, 1, Len(text) - 2), LB) ,
              IndicesOf(SubSeq(text, 1, Len(text) - 2), RB), LAMBDA opens, closes :
            IF ~ObjectsOk(text, Tail(opens), closes) THEN Raise("JSONDecodeError")
            ELSE Document([k \in 1..Len(closes) |->
                            LoadRecord(text, opens[k + 1], closes[k])] \o <<>>))
loads(text) == Let1(text, LAMBDA x : loadsV(x))

----------------------------------------------------------------------------
(* Persistence *)

DATA_FILE == "data/products.json"
\* The file tempfile.mkstemp() makes, in the system's temporary directory
TMP_FILE == "prod_.tmp"
\* A path other than DATA_FILE that a caller may pass
OTHER_FILE == "other/products.json"
Paths == {DATA_FILE, TMP_FILE, OTHER_FILE}

Absent == [kind |-> "absent"]
File(text) == [kind |-> "file", text |-> text]
exists(f) == f.kind = "file"

\* open(path, 'r') and json.load(f): the document, or the exception raised
\* (OSError when the file cannot be read, JSONDecodeError when it is not JSON)
read_json(f, canRead) ==
    IF ~exists(f) \/ ~canRead THEN Raise("OSError") ELSE loads(f.text)

\* save_product, lines 208-212: any exception gives the empty collection
read_or_empty(f, canRead) ==
    Let1(read_json(f, canRead), LAMBDA c : IF IsExc(c) THEN Document(<<>>) ELSE c)

\* save_product, lines 214-223: the first entry with the record's id is
\* replaced, or the record is appended
upsertAppend(list, d) == Append(list, d)
upsert(list, d) ==
    LET Matches(i) == get(list[i], "id", None) = get(d, "id", None)
    IN IF \E i \in 1..Len(list) : Matches(i)
       THEN [list EXCEPT ![CHOOSE i \in 1..Len(list) :
                               Matches(i) /\ \A j \in 1..(i - 1) : ~Matches(j)] = d]
       ELSE Append(list, d)

\* load_all_products, lines 233-239: what it returns, and whether it logged an error
load_all_productsSilent(f, canRead) ==
    Let1(read_json(f, canRead), LAMBDA c :
        IF IsExc(c) THEN [ret |-> <<>>, logged |-> FALSE]
        ELSE [ret |-> get(c, "products", <<>>), logged |-> FALSE])
load_all_products(f, canRead) ==
    Let1(read_json(f, canRead), LAMBDA c :
        IF IsExc(c) THEN [ret |-> <<>>, logged |-> TRUE]
        ELSE [ret |-> get(c, "products", <<>>), logged |-> FALSE])

----------------------------------------------------------------------------
(* Bounds of the model *)

MaxFracLen == 3         \* fraction digits of the raw numbers given to to_decimal
MaxHalfUnits == 4       \* unidades_vender ranges over 0, 0.5, ... MaxHalfUnits / 2
MaxPriceCents == 5      \* precio_unitario ranges over 0.00 .. MaxPriceCents / 100
MaxVarCents == 2        \* costos_variables ranges over 0.00 .. MaxVarCents / 100
MaxClock == 3           \* Products built in one run: the clock reads 1 .. MaxClock
CopyChunk == 64         \* tokens one write of a file copy carries

\* The decimal text of n hundredths, and of n halves
RECURSIVE DigitsOfNat(_)
DigitsOfNat(n) == IF n < 10 THEN <<n>> ELSE Append(DigitsOfNat(n \div 10), n % 10)
CentsText(n) == Chars(DigitsOfNat(n \div 100)) \o <<".">> \o Chars(<<(n \div 10) % 10, n % 10>>)
HalvesText(n) == Chars(DigitsOfNat(n \div 2)) \o (IF n % 2 = 1 THEN <<".", "5">> ELSE <<>>)

\* What uuid.uuid4() and datetime.utcnow().isoformat() give the Product built
\* when the clock reads n: a fresh id and the time
Uuid(n) == Str(<<"u">> \o Chars(DigitsOfNat(n)))
Now(n) == Str(<<"T">> \o Chars(DigitsOfNat(n)))

\* The entries that stay the same in every form
FixedEntries ==
    [k \in FieldSet |->
        CASE k = "producto" -> <<"W">>
          [] k = "costo_unitario" -> <<"0", ".", "0", "5">>
          [] k = "costo_venta" -> <<>>
          [] k = "material_por_unidad" -> <<"0", ".", "0", "5">>
          [] k = "inv_mat_inicial" -> <<"1">>
          [] k = "inv_mat_final" -> <<"2">>
          [] k = "precio_compra_material" -> <<"0", ".", "5">>
          [] k = "horas_por_unidad" -> <<"0", ".", "5">>
          [] k = "costo_por_hora" -> <<"0", ".", "0", "5">>
          [] k = "gastos_fijos" -> <<"1">>
          [] k = "gastos_variables_venta" -> <<"0", ".", "2", "5">>
          [] k = "costos_administracion" -> <<" ", "2", " ">>
          [] OTHER -> <<"0">>]

----------------------------------------------------------------------------
(* The application: one Tk main loop, one handler at a time. pc is where the
   program stands: a window waiting for the user, or a statement of
   save_product / load_all_products about to run. *)

Running ==
    {"ensure", "ensure_write", "mkstemp", "read", "modify", "dump", "move", "copy",
     "copystat", "unlink", "saved", "load_read"}

\* A fresh installation: no data file yet. The temporary directory and data/
\* may or may not lie on one filesystem.
InitApp ==
    /\ pc = "idle"
    /\ clock = 1
    /\ form = Prefill(NoSeed)
    /\ seed = NoSeed
    /\ product = Pending
    /\ out = Pending
    /\ files = [f \in Paths |-> Absent]
    /\ readable = TRUE
    /\ caller = None
    /\ path = DATA_FILE
    /\ selected = None
    /\ product_dict = None
    /\ content = None
    /\ prods = None
    /\ ret = <<>>
    /\ logged = FALSE
    /\ committed = <<>>
    /\ firstCreated = [x \in {} |-> None]
    /\ fresh = None

Init ==
    /\ InitApp
    /\ sameFs \in BOOLEAN
    /\ raw = None
    /\ parsed = None

\* The texts a user types into a form of the record store's runs
StoreEntries ==
    { [FixedEntries EXCEPT !["producto"] = <<"A">>,
                           !["costo_venta"] = <<"1", ".", "5">>],
      [FixedEntries EXCEPT !["producto"] = <<"B", "\"">>],
      [FixedEntries EXCEPT !["producto"] = <<" ">>] }

\* The locals of a handler that has returned hold nothing
NoForm ==
    /\ form' = Prefill(NoSeed)
    /\ seed' = NoSeed
    /\ product' = Pending
    /\ out' = Pending
NoFrame ==
    /\ caller' = None
    /\ path' = DATA_FILE
    /\ selected' = None
    /\ product_dict' = None
    /\ content' = None
    /\ prods' = None

\* App.open_add, line 283
OpenAdd ==
    /\ pc = "idle"
    /\ pc' = "form"
    /\ seed' = NoSeed
    /\ form' = Prefill(NoSeed)
    /\ UNCHANGED <<product, out, clock, envVars, frameVars, resVars, histVars, parseVars>>

\* The user fills the entries of the open form
Type ==
    /\ pc = "form"
    /\ form' \in StoreEntries \ {form}
    /\ product' = Pending
    /\ out' = Pending
    /\ UNCHANGED <<pc, seed, clock, envVars, frameVars, resVars, histVars, parseVars>>

\* ProductForm.on_save, lines 381-405: the Product and its results, or the
\* exception that ended the handler; the summary opens when both are there
on_save ==
    /\ pc = "form"
    /\ clock <= MaxClock
    /\ \E p \in {on_save_product(form, seed, Uuid(clock), Now(clock))} :
        /\ product' = p
        /\ IF p.kind = "Product"
           THEN /\ clock' = clock + 1
                /\ \E results \in {calculate_all(p)} :
                    /\ out' = results
                    /\ pc' = IF results.kind = "dict" THEN "summary" ELSE "form"
           ELSE /\ out' = Pending
                /\ UNCHANGED <<pc, clock>>
    /\ UNCHANGED <<form, seed, envVars, frameVars, resVars, histVars, parseVars>>

\* Cancelar, line 351
Cancelar ==
    /\ pc = "form"
    /\ pc' = "idle"
    /\ NoForm
    /\ UNCHANGED <<clock, envVars, frameVars, resVars, histVars, parseVars>>

\* SummaryModal's Cerrar, line 429
Cerrar ==
    /\ pc = "summary"
    /\ pc' = "form"
    /\ product' = Pending
    /\ out' = Pending
    /\ UNCHANGED <<form, seed, clock, envVars, frameVars, resVars, histVars, parseVars>>

\* SummaryModal's Aceptar and the confirmation, lines 407-409: save_product is
\* called with p.to_json_dict()
Aceptar ==
    /\ pc = "summary"
    /\ pc' = "ensure"
    /\ caller' = "save"
    /\ path' = DATA_FILE
    /\ product_dict' = to_json_dict(product)
    /\ fresh' = None
    /\ UNCHANGED <<form, seed, product, out, clock, envVars, selected, content, prods,
                   resVars, committed, firstCreated, parseVars>>

\* App.open_view / open_edit, ProductList.load, line 461: load_all_products is called
OpenList ==
    /\ pc = "idle"
    /\ pc' = "ensure"
    /\ caller' = "list"
    /\ path' = DATA_FILE
    /\ UNCHANGED <<formVars, clock, envVars, selected, product_dict, content, prods, resVars,
                   histVars, parseVars>>

\* _ensure_datafile, lines 201-202: write_text opens DATA_FILE for writing when
\* it does not exist, which creates it empty
Ensure ==
    /\ pc = "ensure"
    /\ IF exists(files[DATA_FILE])
       THEN /\ pc' = IF caller = "save" THEN "mkstemp" ELSE "load_read"
            /\ UNCHANGED files
       ELSE /\ pc' = "ensure_write"
            /\ files' = [files EXCEPT ![DATA_FILE] = File(<<>>)]
    /\ UNCHANGED <<formVars, clock, sameFs, readable, frameVars, resVars, histVars, parseVars>>

\* _ensure_datafile, line 202: the empty collection is written
EnsureWrite ==
    /\ pc = "ensure_write"
    /\ pc' = IF caller = "save" THEN "mkstemp" ELSE "load_read"
    /\ files' = [files EXCEPT ![DATA_FILE] = File(EmptyDocument)]
    /\ UNCHANGED <<formVars, clock, sameFs, readable, frameVars, resVars, histVars, parseVars>>

\* save_product, line 207
Mkstemp ==
    /\ pc = "mkstemp"
    /\ pc' = "read"
    /\ files' = [files EXCEPT ![TMP_FILE] = File(<<>>)]
    /\ UNCHANGED <<formVars, clock, sameFs, readable, frameVars, resVars, histVars, parseVars>>

\* save_product, lines 208-212
SaveRead ==
    /\ pc = "read"
    /\ pc' = "modify"
    /\ content' = read_or_empty(files[path], path = DATA_FILE => readable)
    /\ UNCHANGED <<formVars, clock, envVars, caller, path, selected, product_dict, prods, resVars,
                   histVars, parseVars>>

\* save_product, lines 214-223
Modify ==
    /\ pc = "modify"
    /\ pc' = "dump"
    /\ prods' = upsert(get(content, "products", <<>>), product_dict)
    /\ UNCHANGED <<formVars, clock, envVars, caller, path, selected, product_dict, content, resVars,
                   histVars, parseVars>>

\* save_product, lines 225-226
Dump ==
    /\ pc = "dump"
    /\ pc' = "move"
    /\ files' = [files EXCEPT ![TMP_FILE] = File(dumps(Document(prods)))]
    /\ UNCHANGED <<formVars, clock, sameFs, readable, frameVars, resVars, histVars, parseVars>>

\* The canonical file has just become the complete document of prods
Commit ==
    /\ committed' = prods
    /\ firstCreated' =
        IF product_dict["id"] \in DOMAIN firstCreated THEN firstCreated
        ELSE firstCreated @@ (product_dict["id"] :> product_dict["created_at"])
    /\ UNCHANGED fresh

\* shutil.move, line 227, on one filesystem: os.rename puts the temporary
\* file in the place of the file at path in one step
MoveRename ==
    /\ pc = "move"
    /\ sameFs
    /\ pc' = "saved"
    /\ files' = [files EXCEPT ![path] = files[TMP_FILE], ![TMP_FILE] = Absent]
    /\ readable' = (path = DATA_FILE \/ readable)
    /\ Commit
    /\ UNCHANGED <<formVars, clock, sameFs, frameVars, resVars, parseVars>>

\* shutil.move, line 227, across filesystems: os.rename fails and copy2 opens
\* the file at path for writing, which empties it
MoveCopyOpen ==
    /\ pc = "move"
    /\ ~sameFs
    /\ pc' = "copy"
    /\ files' = [files EXCEPT ![path] = File(<<>>)]
    /\ UNCHANGED <<formVars, clock, sameFs, readable, frameVars, resVars, histVars, parseVars>>

\* copy2: the next chunk of the temporary file is written to the file at path
CopyWrite ==
    /\ pc = "copy"
    /\ LET done == Len(files[path].text)
           total == Len(files[TMP_FILE].text)
           upto == MinInt(done + CopyChunk, total)
       IN /\ files' = [files EXCEPT ![path] = File(Take(files[TMP_FILE].text, upto))]
          /\ IF upto = total
             THEN pc' = "copystat" /\ Commit
             ELSE pc' = "copy" /\ UNCHANGED histVars
    /\ UNCHANGED <<formVars, clock, sameFs, readable, frameVars, resVars, parseVars>>

\* copy2: copystat gives the file at path the temporary file's permissions
CopyStat ==
    /\ pc = "copystat"
    /\ pc' = "unlink"
    /\ readable' = (path = DATA_FILE \/ readable)
    /\ UNCHANGED <<formVars, clock, files, sameFs, frameVars, resVars, histVars, parseVars>>

\* shutil.move: the temporary file is removed
Unlink ==
    /\ pc = "unlink"
    /\ pc' = "saved"
    /\ files' = [files EXCEPT ![TMP_FILE] = Absent]
    /\ UNCHANGED <<formVars, clock, sameFs, readable, frameVars, resVars, histVars, parseVars>>

\* save_product returns, line 228; _confirm_save closes the form, lines 410-411
Saved ==
    /\ pc = "saved"
    /\ pc' = "idle"
    /\ fresh' = product_dict
    /\ NoForm
    /\ NoFrame
    /\ UNCHANGED <<clock, envVars, resVars, committed, firstCreated, parseVars>>

\* get_selected_product, lines 480-484: the loaded product with the selected id
Selected(products, pid) ==
    IF \E i \in 1..Len(products) : get(products[i], "id", None) = pid
    THEN products[CHOOSE i \in 1..Len(products) :
                    /\ get(products[i], "id", None) = pid
                    /\ \A j \in 1..(i - 1) : get(products[j], "id", None) # pid]
    ELSE None

\* load_all_products, lines 233-239, and its caller: ProductList.load fills the
\* list; edit_selected opens the form on the selected product, lines 513-517
LoadRead ==
    /\ pc = "load_read"
    /\ \E r \in {load_all_products(files[path], path = DATA_FILE => readable)} :
        /\ logged' = r.logged
        /\ IF caller = "list"
           THEN /\ ret' = r.ret
                /\ pc' = "browse"
                /\ UNCHANGED <<form, seed>>
           ELSE \E p \in {Selected(r.ret, selected)} :
                IF p = None
                THEN /\ ret' = r.ret
                     /\ pc' = "browse"
                     /\ UNCHANGED <<form, seed>>
                ELSE /\ ret' = <<>>
                     /\ pc' = "form"
                     /\ seed' = p
                     /\ form' = Prefill(p)
    /\ caller' = None
    /\ path' = DATA_FILE
    /\ selected' = None
    /\ UNCHANGED <<product, out, clock, envVars, product_dict, content, prods, histVars,
                   parseVars>>

\* ProductList.edit_selected on row i, lines 513-517: get_selected_product
\* calls load_all_products
EditSelected ==
    /\ pc = "browse"
    /\ \E i \in 1..Len(ret) :
        selected' = get(ret[i], "id", None)
    /\ pc' = "ensure"
    /\ caller' = "select"
    /\ path' = DATA_FILE
    /\ UNCHANGED <<formVars, clock, envVars, product_dict, content, prods, resVars, histVars,
                   parseVars>>

\* Volver, line 452
Volver ==
    /\ pc = "browse"
    /\ pc' = "idle"
    /\ ret' = <<>>
    /\ logged' = FALSE
    /\ UNCHANGED <<formVars, clock, envVars, frameVars, histVars, parseVars>>

\* The process is interrupted inside save_product or load_all_products and
\* started again: what it held in memory is gone, the files stay as they are
Crash ==
    /\ pc \in Running
    /\ pc' = "idle"
    /\ NoForm
    /\ NoFrame
    /\ ret' = <<>>
    /\ logged' = FALSE
    /\ UNCHANGED <<clock, envVars, histVars, parseVars>>

\* Outside the program the data file's read permission is taken away or given back
Chmod ==
    /\ pc = "idle"
    /\ exists(files[DATA_FILE])
    /\ readable' = ~readable
    /\ fresh' = None
    /\ UNCHANGED <<pc, formVars, clock, files, sameFs, frameVars, resVars, committed,
                   firstCreated, parseVars>>

Next ==
    \/ OpenAdd \/ Type \/ on_save \/ Cancelar \/ Cerrar \/ Aceptar \/ OpenList
    \/ Ensure \/ EnsureWrite \/ Mkstemp \/ SaveRead \/ Modify \/ Dump
    \/ MoveRename \/ MoveCopyOpen \/ CopyWrite \/ CopyStat \/ Unlink \/ Saved
    \/ LoadRead \/ EditSelected \/ Volver \/ Crash \/ Chmod

Spec == Init /\ [][Next]_vars

----------------------------------------------------------------------------
(* to_decimal on its own: SpecParse *)

FieldName == "precio_unitario"
IntParts == {<<>>, <<"0">>, <<"1">>, <<"1", "2">>, <<"1", "2", "3">>}
FracDigits == {"0", "4", "5", "6"}
FracParts ==
    {<<>>} \cup {<<".">> \o f : f \in UNION {[1..n -> FracDigits] : n \in 0..MaxFracLen}}
NumberTexts ==
    {sg \o ip \o fp : sg \in {<<>>, <<"-">>}, ip \in IntParts, fp \in FracParts}
OtherTexts ==
    { <<>>, <<" ">>, <<" ", " ">>, <<"a", "b", "c">>, <<"-">>, <<"+", "1">>,
      <<"1", ".", "2", ".", "3">>, <<" ", "1", "2", " ">>, <<"1", "_", "0", "0", "0">>,
      <<"1", " ", "2">>, <<"1", "e">>, <<"e", "5">>, <<"1", "E", "2">>,
      <<"1", "e", "-", "1">>, <<"1", "e", "2", "5">>, <<"1", "e", "2", "6">>,
      <<"N", "a", "N">>, <<"n", "a", "n">>, <<"s", "N", "a", "N">>,
      <<"I", "n", "f", "i", "n", "i", "t", "y">>,
      <<"-", "I", "n", "f", "i", "n", "i", "t", "y">>, <<"i", "n", "f">>,
      \* 26 nines before the point: 28 digits at two decimals, 29 once rounded up
      [i \in 1..26 |-> "9"] \o <<".", "9", "9", "4">>,
      [i \in 1..26 |-> "9"] \o <<".", "9", "9", "5">> }
RawScalars == {None} \cup {Str(t) : t \in NumberTexts \cup OtherTexts}

InitParse ==
    /\ InitApp
    /\ sameFs = TRUE
    /\ \E r \in RawScalars :
        /\ raw = r
        /\ parsed = Pending

\* One call to_decimal(raw, field_name)
Parse ==
    /\ parsed = Pending
    /\ parsed' = to_decimal(raw, FieldName)
    /\ UNCHANGED <<raw, pc, formVars, clock, envVars, frameVars, resVars, histVars>>

SpecParse == InitParse /\ [][Parse]_vars

----------------------------------------------------------------------------
(* The form's Guardar up to the summary: SpecCalc *)

UnitTexts == {HalvesText(n) : n \in 0..MaxHalfUnits} \cup {<<>>}
PriceTexts == {CentsText(n) : n \in 0..MaxPriceCents}
VarTexts == {CentsText(n) : n \in 0..MaxVarCents} \cup {<<"N", "a", "N">>}
FixedTexts == {<<"0">>, <<"1">>, <<"1", "e", "2", "5">>}
OpeningTexts == {<<"0">>, <<"2">>}
ClosingTexts == {<<"0">>, <<"1">>}
\* 26 nines before the point: the largest cost of sales to_decimal lets through
CostOfSalesTexts ==
    {<<>>, <<"1", ".", "5">>, [i \in 1..26 |-> "9"] \o <<".", "9", "9">>}

FormInputs ==
    {[FixedEntries EXCEPT !["unidades_vender"] = u, !["precio_unitario"] = pr,
                          !["costos_variables"] = cv, !["costos_fijos"] = cf,
                          !["inventario_inicial"] = oi, !["inventario_final"] = ci,
                          !["costo_venta"] = cs] :
        u \in UnitTexts, pr \in PriceTexts, cv \in VarTexts, cf \in FixedTexts,
        oi \in OpeningTexts, ci \in ClosingTexts, cs \in CostOfSalesTexts}

\* An add form filled by the user, Guardar not yet pressed
InitCalc ==
    /\ pc = "form"
    /\ clock = 1
    /\ form \in FormInputs
    /\ seed = NoSeed
    /\ product = Pending
    /\ out = Pending
    /\ files = [f \in Paths |-> Absent]
    /\ sameFs = TRUE
    /\ readable = TRUE
    /\ caller = None
    /\ path = DATA_FILE
    /\ selected = None
    /\ product_dict = None
    /\ content = None
    /\ prods = None
    /\ ret = <<>>
    /\ logged = FALSE
    /\ committed = <<>>
    /\ firstCreated = [x \in {} |-> None]
    /\ fresh = None
    /\ raw = None
    /\ parsed = None

SpecCalc == InitCalc /\ [][on_save]_vars

----------------------------------------------------------------------------
(* save_product(product_dict, path) and load_all_products(path) called with
   any path: SpecPath *)

\* A record as the form hands it to save_product
StoredRecord == to_json_dict(on_save_product(FixedEntries, NoSeed, Uuid(1), Now(1)))
\* What a file may hold when the call begins: nothing, the empty collection,
\* one record
FileStates == {Absent, File(EmptyDocument), File(dumps(Document(<<StoredRecord>>)))}

\* The call has just begun
InitPath ==
    /\ pc = "ensure"
    /\ clock = 2
    /\ form = Prefill(NoSeed)
    /\ seed = NoSeed
    /\ product = Pending
    /\ out = Pending
    /\ \E d \in FileStates, o \in FileStates :
        files = [f \in Paths |-> IF f = DATA_FILE THEN d
                                 ELSE IF f = OTHER_FILE THEN o ELSE Absent]
    /\ sameFs \in BOOLEAN
    /\ readable = TRUE
    /\ caller \in {"save", "list"}
    /\ path \in {DATA_FILE, OTHER_FILE}
    /\ selected = None
    /\ product_dict = IF caller = "save" THEN StoredRecord ELSE None
    /\ content = None
    /\ prods = None
    /\ ret = <<>>
    /\ logged = FALSE
    /\ committed = <<>>
    /\ firstCreated = [x \in {} |-> None]
    /\ fresh = None
    /\ raw = None
    /\ parsed = None

NextPath ==
    \/ Ensure \/ EnsureWrite \/ Mkstemp \/ SaveRead \/ Modify \/ Dump
    \/ MoveRename \/ MoveCopyOpen \/ CopyWrite \/ CopyStat \/ Unlink \/ Saved
    \/ LoadRead

SpecPath == InitPath /\ [][NextPath]_vars

----------------------------------------------------------------------------
(* Properties *)

\* The value stored under key in the dict calculate_all returned
Item(results, key) ==
    results.items[CHOOSE i \in 1..Len(results.items) : results.items[i][1] = key][2]
\* unitsToSell + closingInventory - openingInventory of a Product
Production(p) == Sub(Add(p.unidades_vender, p.inventario_final), p.inventario_inicial)
\* calculate_all has returned its dict for the Product of the form
Computed == product.kind = "Product" /\ out.kind = "dict"
\* The data file holds a complete document
WellFormed(f) == exists(f) /\ ~IsExc(loads(f.text))
\* after is before with d in the place of the entry that has d's id, or with d
\* at the end when no entry has it
InPlace(before, d, after) ==
    IF \E i \in 1..Len(before) : before[i]["id"] = d["id"]
    THEN /\ Len(after) = Len(before)
         /\ \E i \in 1..Len(before) :
              /\ before[i]["id"] = d["id"]
              /\ after[i] = d
              /\ \A j \in (1..Len(before)) \ {i} : after[j] = before[j]
    ELSE after = before \o <<d>>

\* C1: once a collection has been committed, the data file holds, at every
\* point of every save_product and after every interruption, a complete
\* document of the last committed collection.
C1_LastGoodState ==
    committed # <<>> =>
        /\ WellFormed(files[DATA_FILE])
        /\ loads(files[DATA_FILE].text) = Document(committed)

\* C2: save_product replaces the first entry that has the record's id where it
\* stands, the length and every other entry unchanged, and appends the record
\* when no entry has its id; the collection it starts from is the one it read
\* from the data file (empty when the file cannot be read or parsed), and the
\* collection it ends with is the document the data file holds when it returns.
C2_ReplaceInPlaceOrAppend ==
    /\ pc \in {"modify", "dump", "move"} =>
          content = read_or_empty(files[DATA_FILE], readable)
    /\ pc \in {"dump", "move", "copy", "copystat", "unlink", "saved"} =>
          InPlace(content["products"], product_dict, prods)
    /\ pc = "saved" =>
          /\ WellFormed(files[DATA_FILE])
          /\ loads(files[DATA_FILE].text) = Document(prods)
\* A save has returned that replaced the first of two stored entries
C2_Replaced ==
    /\ pc = "saved"
    /\ Len(content["products"]) = 2
    /\ content["products"][1]["id"] = product_dict["id"]
    /\ content["products"][1] # product_dict
    /\ prods = <<product_dict, content["products"][2]>>

\* C3: load_all_products called for the list after save_product has returned
\* gives a collection with an entry equal, field for field and text for text,
\* to the record saved; a costo_venta that was None comes back None.
C3_RoundTrip ==
    [][(LoadRead /\ caller = "list" /\ fresh # None) =>
          \E i \in 1..Len(ret') : ret'[i] = fresh]_vars
\* The list shows a record just saved without a cost of sales, its name
\* holding a character JSON escapes
C3_Loaded ==
    /\ pc = "browse"
    /\ fresh # None
    /\ fresh["costo_venta"] = None
    /\ \E i \in 1..Len(fresh["producto"].s) : NeedsEscape(fresh["producto"].s[i])
    /\ \E i \in 1..Len(ret) : ret[i] = fresh

C5_HalfUpEveryStep ==
    Computed =>
        LET HalfUp(x) == quantize(x, TWOPLACES, ROUND_HALF_UP)
            p == product
        IN /\ Item(out, "total_ventas") = HalfUp(Mul(p.unidades_vender, p.precio_unitario))
           /\ Item(out, "costo_MOD_unitario") = HalfUp(Mul(p.horas_por_unidad, p.costo_por_hora))
           /\ Item(out, "CIF_total") = HalfUp(Add(p.costos_fijos, p.costos_variables))
           /\ Item(out, "gastos_totales") =
                HalfUp(Add(Add(p.gastos_fijos, p.gastos_variables_venta),
                           p.costos_administracion))
           /\ Item(out, "inventario_final_valor") =
                HalfUp(Mul(p.inventario_final, p.costo_unitario))

C7_CreatedAtKept ==
    \A i \in 1..Len(committed) :
        /\ committed[i]["id"] \in DOMAIN firstCreated
        /\ committed[i]["created_at"] = firstCreated[committed[i]["id"]]

\* C8: to_decimal raises ValueError naming the field exactly when the raw
\* value is None, blank or a text Decimal() rejects, and otherwise returns
\* the number at two places, rounded half up.
C8_ParseContract ==
    parsed # Pending =>
        IF raw = None \/ IsBlank(raw) \/ IsExc(Decimal(raw.s))
        THEN parsed = ValueError(FieldName)
        ELSE /\ IsFinite(parsed)
             /\ parsed.exp = -2
             /\ parsed = quantize(Decimal(raw.s), TWOPLACES, ROUND_HALF_UP)

\* C9: load_all_products on a data file that cannot be read or does not parse
\* returns the empty list to its caller, logs the error and leaves every file
\* as it was.
C9_LoadDegrades ==
    [][(LoadRead /\ (~readable \/ ~WellFormed(files[DATA_FILE]))) =>
          /\ ret' = <<>>
          /\ logged'
          /\ pc' = "browse"
          /\ files' = files]_vars
\* The list window open on a partially written data file, the error logged
C9_CorruptListed ==
    /\ pc = "browse"
    /\ logged
    /\ ret = <<>>
    /\ readable
    /\ exists(files[DATA_FILE])
    /\ files[DATA_FILE].text # <<>>
    /\ IsExc(loads(files[DATA_FILE].text))

\* C10: calculate_all returns for every Product, and the break-even point is
\* costos_fijos / (precio_unitario - costo_variable_unitario) at two places
\* exactly when the variable unit cost is defined and differs from the price,
\* and None otherwise.
C10_BreakEvenDefined ==
    /\ product.kind = "Product" /\ out # Pending => out.kind = "dict"
    /\ Computed =>
        LET cvu == Item(out, "costo_variable_unitario")
            pe == Item(out, "punto_equilibrio_unidades")
        IN IF cvu # None /\ ~NumEq(product.precio_unitario, cvu)
           THEN /\ IsDecimal(pe)
                /\ pe = Q(Div(product.costos_fijos, Sub(product.precio_unitario, cvu)))
           ELSE pe = None

\* No two entries of a collection have the same id
DistinctIds(list) ==
    \A i, j \in 1..Len(list) :
        i # j => get(list[i], "id", None) # get(list[j], "id", None)

\* C11: from a store that did not exist, whatever is saved, loaded, edited and
\* interrupted, no two entries have the same id: not in the document the data
\* file holds, not in the collection save_product is about to write, not in
\* the list load_all_products returned.
C11_UniqueIds ==
    /\ WellFormed(files[DATA_FILE]) =>
          DistinctIds(loads(files[DATA_FILE].text)["products"])
    /\ pc \in {"dump", "move", "copy", "copystat", "unlink", "saved"} => DistinctIds(prods)
    /\ DistinctIds(ret)
\* Two products are stored, and the one just saved had been saved before
\* under the same id
C11_ResavedAmongTwo ==
    /\ pc = "idle"
    /\ fresh # None
    /\ fresh["created_at"] # firstCreated[fresh["id"]]
    /\ WellFormed(files[DATA_FILE])
    /\ Len(loads(files[DATA_FILE].text)["products"]) = 2

\* C12: whatever path save_product or load_all_products is called with, the
\* file at that path exists when the call comes to read it: it was there
\* already, or the call has initialised it.
C12_PathInitialised ==
    pc \in {"mkstemp", "read", "load_read"} => exists(files[path])

====
